---- MODULE Spec2Model ----
(***************************************************************************)
(* A model of the NWS directives chatbot: the scope filter, the citation   *)
(* loop, the page run and the chat turn of streamlit_app.py, and the       *)
(* acquisition loop of prepare_directives.py.                              *)
(*                                                                         *)
(* Python strings are modelled as sequences: a region name is the sequence *)
(* of its words, a file name the sequence of its characters, a passage     *)
(* text a sequence of runs of characters.  `x in s` on strings is the      *)
(* contiguous-subsequence test.                                            *)
(***************************************************************************)
EXTENDS Integers, Sequences, FiniteSets, TLC

VARIABLES
    \* scope filter (streamlit_app.py 80-88)
    all_docs, region, filtered, refiltered, warned, filter_pc,
    \* citation loop (streamlit_app.py 167-190)
    source_nodes, sources, cite_pc,
    \* acquisition of one series (prepare_directives.py 11-58)
    listing, pdf_links, link_i, checked, stored, acq_pc,
    \* session state and page run (streamlit_app.py 16-26, 56-77, 139-142)
    user_region, user_region_changed, chat_engine, selected_region,
    run_pc, page_out, build_call, changed_in_run, runs,
    \* chat turn (streamlit_app.py 148-196)
    messages, prompt, chat_pc

filterVars == <<all_docs, region, filtered, refiltered, warned, filter_pc>>
citeVars == <<source_nodes, sources, cite_pc>>
acqVars == <<listing, pdf_links, link_i, checked, stored, acq_pc>>
pageVars == <<user_region, user_region_changed, chat_engine, selected_region,
              run_pc, page_out, build_call, changed_in_run, runs>>
chatVars == <<messages, prompt, chat_pc>>
vars == <<filterVars, citeVars, acqVars, pageVars, chatVars>>

\* ---------------------------------------------------------------- bounds
MaxDocs == 3
MaxNodes == 5
MaxLinks == 3
MaxRuns == 5
MaxMessages == 5

\* ------------------------------------------------------- python helpers
\* Python's `s in t` on strings: s is a contiguous part of t.
StrIn(s, t) ==
    \E i \in 0..(Len(t) - Len(s)) : SubSeq(t, i + 1, i + Len(s)) = s

\* dict.get(key, default)
DictGet(d, key, default) == IF key \in DOMAIN d THEN d[key] ELSE default

\* A dict with no keys.
EmptyDict == [k \in {} |-> k]

EmptyStr == <<>>

\* ------------------------------------------------ parts not under study
\* Each specification below runs one part of the program; the variables of
\* the other parts rest at these values.
IdleFilter ==
    /\ all_docs = <<>>
    /\ region = EmptyStr
    /\ filtered = <<>>
    /\ refiltered = <<>>
    /\ warned = FALSE
    /\ filter_pc = "off"

IdleCite ==
    /\ source_nodes = <<>>
    /\ sources = <<>>
    /\ cite_pc = "off"

IdleAcq ==
    /\ listing = "none"
    /\ pdf_links = <<>>
    /\ link_i = 0
    /\ checked = {}
    /\ stored = {}
    /\ acq_pc = "off"

\* Python's None where a string may stand, and a call never made.
PyNone == <<"<None>">>
NoCall == <<"<no call>">>

\* Truth value of an optional string: None and "" are false.
Truthy(x) == x # PyNone /\ x # EmptyStr

IdlePage ==
    /\ user_region = PyNone
    /\ user_region_changed = FALSE
    /\ chat_engine = PyNone
    /\ selected_region = EmptyStr
    /\ run_pc = "off"
    /\ page_out = "none"
    /\ build_call = NoCall
    /\ changed_in_run = FALSE
    /\ runs = 0

IdleChat ==
    /\ messages = <<>>
    /\ prompt = PyNone
    /\ chat_pc = "off"

\* -------------------------------------------------------------- regions
NATIONAL == <<"National">>
SOUTHERN == <<"Southern", "Region">>
WESTERN == <<"Western", "Region">>
EASTERN == <<"Eastern", "Region">>

\* list(NWS_REGIONS.values()): the regions the selectbox offers.
NWS_REGIONS == {SOUTHERN, WESTERN, EASTERN}

\* The metadata a loaded document may carry: no "region" key, a national
\* tag, a regional tag, or a tag naming both.
DocMetadatas ==
    {EmptyDict}
        \cup {[region |-> r] : r \in {NATIONAL, SOUTHERN, WESTERN, NATIONAL \o SOUTHERN}}

\* all_docs: the loaded documents, each its own object (id = load position).
DocLists ==
    UNION {{[i \in 1..n |-> [id |-> i, metadata |-> f[i]]] : f \in [1..n -> DocMetadatas]}
               : n \in 0..MaxDocs}


\* -------------------------------------------------------- passage texts
\* A text is a sequence of runs [k, n, w]: n characters of whitespace
\* (k = "ws"), of prose w (k = "ch"), or the phrase BLANK_PAGE (k = "mark",
\* n = its length).  Prose runs hold no whitespace and no part of the phrase.
BLANK_PAGE == "This page intentionally left blank"
BlankPageLen == 34
ExcerptLen == 200
MinExcerptLen == 20
max_sources == 3

RECURSIVE LStrip(_)
LStrip(t) == IF t # <<>> /\ Head(t).k = "ws" THEN LStrip(Tail(t)) ELSE t

RECURSIVE RStrip(_)
RStrip(t) ==
    IF t # <<>> /\ t[Len(t)].k = "ws" THEN RStrip(SubSeq(t, 1, Len(t) - 1)) ELSE t

\* str.strip()
Strip(t) == RStrip(LStrip(t))

RECURSIVE TextLen(_)
TextLen(t) == IF t = <<>> THEN 0 ELSE Head(t).n + TextLen(Tail(t))

\* t[:m].  A phrase cut short is prose.
RECURSIVE Prefix(_, _)
Prefix(t, m) ==
    IF t = <<>> \/ m <= 0 THEN <<>>
    ELSE IF Head(t).n <= m THEN <<Head(t)>> \o Prefix(Tail(t), m - Head(t).n)
    ELSE <<[k |-> IF Head(t).k = "mark" THEN "ch" ELSE Head(t).k,
            n |-> m, w |-> Head(t).w]>>

\* "This page intentionally left blank" in t
HasBlankPage(t) == \E i \in 1..Len(t) : t[i].k = "mark"

Ws(n) == [k |-> "ws", n |-> n, w |-> " "]
Ch(n, w) == [k |-> "ch", n |-> n, w |-> w]
Mark == [k |-> "mark", n |-> BlankPageLen, w |-> BLANK_PAGE]

TextA == <<Ws(2), Ch(300, "a"), Ws(1)>>
TextB == <<Ch(60, "b")>>
TextBlank == <<Mark>>
TextGap == <<Ch(15, "d"), Ws(190), Ch(40, "e")>>

\* ---------------------------------------------------------- file names
Digits == {"0", "1", "2", "3", "4", "5", "6", "7", "8", "9"}

\* s[a:b]
Slice(s, a, b) == SubSeq(s, a + 1, IF b < Len(s) THEN b ELSE Len(s))

StartsWith(s, pre) == Len(s) >= Len(pre) /\ SubSeq(s, 1, Len(pre)) = pre

\* str.isdigit(): not empty, every character a digit.
IsDigit(s) == s # <<>> /\ \A i \in 1..Len(s) : s[i] \in Digits

\* os.path.basename(): what follows the last "/".
RECURSIVE Basename(_)
Basename(p) ==
    IF \E i \in 1..Len(p) : p[i] = "/"
    THEN Basename(SubSeq(p, (CHOOSE i \in 1..Len(p) : p[i] = "/") + 1, Len(p)))
    ELSE p

FileA == <<"d", "/", "p", "d", "0", "2", "0", "a">>
FileB == <<"p", "d", "0", "1", "0", "b">>
FileNoPrefix == <<"x", "x", "0", "2", "0", "a">>
FileShort == <<"p", "d", "0", "2">>

UNKNOWN_SOURCE == <<"Unknown Source">>

\* Lines 181-186.
SourceUrl(node) ==
    IF "file_name" \in DOMAIN node.metadata
    THEN LET file_name == Basename(node.metadata["file_name"])
             series_match ==
                 IF StartsWith(file_name, <<"p", "d">>) /\ IsDigit(Slice(file_name, 2, 5))
                 THEN Slice(file_name, 2, 5) ELSE <<>>
         IN  IF series_match # <<>>
             THEN <<"https://www.weather.gov/media/directives/", series_match,
                    "_pdfs/", file_name>>
             ELSE UNKNOWN_SOURCE
    ELSE UNKNOWN_SOURCE

\* Lines 173-179: the excerpt, or no excerpt (<<>>) for a passage the text
\* tests skip.
SourceExcerpt(node) ==
    LET source_text == Strip(node.text)
        source_excerpt == Strip(Prefix(source_text, ExcerptLen))
    IN  IF source_text = <<>> \/ HasBlankPage(source_text) THEN <<>>
        ELSE IF TextLen(source_excerpt) < MinExcerptLen THEN <<>>
        ELSE source_excerpt

\* Line 189: f"- [{source_excerpt}...]({source_url})"
Citation(excerpt, url) == <<"- [", excerpt, "...](", url, ")">>
CitationUrl(c) == c[4]

\* Mutant: a passage with no derivable URL is skipped.
CiteStep_DropUnknown(node, acc) ==
    LET excerpt == SourceExcerpt(node)
        url == SourceUrl(node)
    IN  IF excerpt = <<>> \/ url = UNKNOWN_SOURCE THEN acc
        ELSE IF url \notin acc.seen_sources
        THEN [sources |-> Append(acc.sources, Citation(excerpt, url)),
              seen_sources |-> acc.seen_sources \cup {url}]
        ELSE acc

\* Mutant: seen_sources remembers the citation line, not the URL.
CiteStep_SeenByCitation(node, acc) ==
    LET excerpt == SourceExcerpt(node)
        url == SourceUrl(node)
    IN  IF excerpt = <<>> THEN acc
        ELSE IF Citation(excerpt, url) \notin acc.seen_sources
        THEN [sources |-> Append(acc.sources, Citation(excerpt, url)),
              seen_sources |-> acc.seen_sources \cup {Citation(excerpt, url)}]
        ELSE acc

\* One pass of the loop body, lines 173-190; acc = [sources, seen_sources].
CiteStep(node, acc) ==
    LET excerpt == SourceExcerpt(node)
        url == SourceUrl(node)
    IN  IF excerpt = <<>> THEN acc
        ELSE IF url \notin acc.seen_sources
        THEN [sources |-> Append(acc.sources, Citation(excerpt, url)),
              seen_sources |-> acc.seen_sources \cup {url}]
        ELSE acc

\* for node in nodes: the body over nodes[i], nodes[i+1], ...
RECURSIVE CiteLoop(_, _, _)
CiteLoop(nodes, i, acc) ==
    IF i > Len(nodes) THEN acc
    ELSE CiteLoop(nodes, i + 1, CiteStep(nodes[i], acc))

\* Lines 168-190: the loop over source_nodes[:max_sources].
BuildSources(nodes) ==
    CiteLoop(Slice(nodes, 0, max_sources), 1,
             [sources |-> <<>>, seen_sources |-> {}]).sources

Node(text, md) == [text |-> text, metadata |-> md]

\* The passages a response may carry.
NodeKinds ==
    { Node(TextA, [file_name |-> FileA]),
      Node(TextB, [file_name |-> FileA]),
      Node(TextA, [file_name |-> FileB]),
      Node(TextBlank, [file_name |-> FileB]),
      Node(TextA, EmptyDict),
      Node(TextB, [file_name |-> FileNoPrefix]),
      Node(TextGap, [file_name |-> FileB]),
      Node(TextB, [file_name |-> FileShort]) }

NodeLists == UNION {[1..n -> NodeKinds] : n \in 0..MaxNodes}

InitCite ==
    /\ IdleFilter /\ IdleAcq /\ IdlePage /\ IdleChat
    /\ source_nodes \in NodeLists
    /\ sources = <<>>
    /\ cite_pc = "start"

\* Lines 167-190 over response_stream.source_nodes.
Cite ==
    /\ cite_pc = "start"
    /\ sources' = BuildSources(source_nodes)
    /\ cite_pc' = "cited"
    /\ UNCHANGED source_nodes
    /\ UNCHANGED <<filterVars, acqVars, pageVars, chatVars>>

NextCite == Cite

SpecCite == InitCite /\ [][NextCite]_vars

\* ---------------------------------------------------------- scope filter
IsNationalDoc(doc) == StrIn(NATIONAL, DictGet(doc.metadata, "region", EmptyStr))
IsRegionalDoc(doc, r) == StrIn(r, DictGet(doc.metadata, "region", EmptyStr))

national_docs(docs) == SelectSeq(docs, IsNationalDoc)
regional_docs(docs, r) == SelectSeq(docs, LAMBDA doc : IsRegionalDoc(doc, r))

\* Mutant: the regional list alone whenever it is not empty.
get_filtered_documents_RegionalOnly(docs, r) ==
    IF regional_docs(docs, r) # <<>> THEN regional_docs(docs, r) ELSE national_docs(docs)

\* Mutant: the two lists concatenated the other way round.
get_filtered_documents_Swapped(docs, r) ==
    regional_docs(docs, r) \o national_docs(docs)

get_filtered_documents(docs, r) ==
    national_docs(docs) \o regional_docs(docs, r)

\* The warning of line 85-86.
NoRegionalWarning(docs, r) == regional_docs(docs, r) = <<>>

InitFilter ==
    /\ IdleCite /\ IdleAcq /\ IdlePage /\ IdleChat
    /\ all_docs \in DocLists
    /\ region \in NWS_REGIONS
    /\ filtered = <<>>
    /\ refiltered = <<>>
    /\ warned = FALSE
    /\ filter_pc = "start"

\* get_filtered_documents(region) over all_docs.
Filter ==
    /\ filter_pc = "start"
    /\ filtered' = get_filtered_documents(all_docs, region)
    /\ warned' = NoRegionalWarning(all_docs, region)
    /\ filter_pc' = "filtered"
    /\ UNCHANGED <<all_docs, region, refiltered>>
    /\ UNCHANGED <<citeVars, acqVars, pageVars, chatVars>>

\* The filter applied to its own output, same region.
Refilter ==
    /\ filter_pc = "filtered"
    /\ refiltered' = get_filtered_documents(filtered, region)
    /\ filter_pc' = "refiltered"
    /\ UNCHANGED <<all_docs, region, filtered, warned>>
    /\ UNCHANGED <<citeVars, acqVars, pageVars, chatVars>>

NextFilter == Filter \/ Refilter

SpecFilter == InitFilter /\ [][NextFilter]_vars


\* ----------------------------------------------------------- acquisition
\* What the server does with one link of the listing: the HEAD request
\* raises, reports another content type, or reports a PDF whose GET then
\* fails (raise_for_status) or succeeds.
LinkOutcomes == {"head_error", "not_pdf", "get_error", "pdf"}
LinkNames == {"a.pdf", "b.pdf"}
Links == [name : LinkNames, outcome : LinkOutcomes]
LinkLists == UNION {[1..n -> Links] : n \in 0..MaxLinks}

InitAcq ==
    /\ IdleFilter /\ IdleCite /\ IdlePage /\ IdleChat
    /\ listing \in {"ok", "error"}
    /\ pdf_links \in LinkLists
    /\ link_i = 0
    /\ checked = {}
    /\ stored = {}
    /\ acq_pc = "start"

\* Lines 13-28: the listing is fetched and its PDF links collected.  An
\* error goes to the handler of line 57; no link ends the call.
FetchListing ==
    /\ acq_pc = "start"
    /\ acq_pc' = IF listing = "error" THEN "failed"
                 ELSE IF pdf_links = <<>> THEN "no_pdfs"
                 ELSE "loop"
    /\ link_i' = IF listing = "ok" /\ pdf_links # <<>> THEN 1 ELSE link_i
    /\ UNCHANGED <<listing, pdf_links, checked, stored>>
    /\ UNCHANGED <<filterVars, citeVars, pageVars, chatVars>>

\* Where the loop of line 31 goes after the link at link_i.
AfterLink == IF link_i < Len(pdf_links) THEN "loop" ELSE "done"

\* Lines 31-54, one link: an exception of the HEAD or the GET leaves the
\* loop for the handler of line 57, which ends the call.
ProcessLink ==
    /\ acq_pc = "loop"
    /\ LET link == pdf_links[link_i]
       IN  CASE link.outcome = "head_error" ->
                    /\ acq_pc' = "failed"
                    /\ UNCHANGED <<link_i, checked, stored>>
             [] link.outcome = "not_pdf" ->
                    /\ checked' = checked \cup {link_i}
                    /\ link_i' = link_i + 1
                    /\ acq_pc' = AfterLink
                    /\ UNCHANGED stored
             [] link.outcome = "get_error" ->
                    /\ checked' = checked \cup {link_i}
                    /\ acq_pc' = "failed"
                    /\ UNCHANGED <<link_i, stored>>
             [] link.outcome = "pdf" ->
                    /\ checked' = checked \cup {link_i}
                    /\ stored' = stored \cup {link.name}
                    /\ link_i' = link_i + 1
                    /\ acq_pc' = AfterLink
    /\ UNCHANGED <<listing, pdf_links>>
    /\ UNCHANGED <<filterVars, citeVars, pageVars, chatVars>>

NextAcq == FetchListing \/ ProcessLink

SpecAcq == InitAcq /\ [][NextAcq]_vars


\* ------------------------------------------------------------- page run
\* The model follows sessions whose secrets and directives folder are in
\* place, so that every run passes lines 28-54.

\* The offices of nws_options.
NWS_OFFICES == {<<"OUN">>}

TYPE_ERROR == <<"TypeError">>
ST_STOP == <<"st.stop">>

\* Positional parameters of `def build_chat_engine(region, office)`.
BuildChatEngineParams == 2

\* Lines 90-137: the engine over the filtered documents, or st.stop() when
\* no office is given.
build_chat_engine(docs, r, office) ==
    IF ~Truthy(office) THEN ST_STOP
    ELSE <<"chat_engine", r, office, get_filtered_documents(docs, r)>>

\* A call build_chat_engine(*args): Python binds the arguments to the
\* parameters before the body runs and raises TypeError when they do not fit.
CallBuildChatEngine(docs, args) ==
    IF Len(args) # BuildChatEngineParams THEN TYPE_ERROR
    ELSE build_chat_engine(docs, args[1], args[2])

\* "chat_engine" in st.session_state: lines 23-24 set the key in every run.
ChatEngineKeySet == TRUE

RunEnded == run_pc \in {"idle", "stopped", "raised", "chat"}

InitPage ==
    /\ IdleFilter /\ IdleCite /\ IdleAcq /\ IdleChat
    /\ user_region = PyNone
    /\ user_region_changed = FALSE
    /\ chat_engine = PyNone
    /\ selected_region = EmptyStr
    /\ run_pc = "idle"
    /\ page_out = "none"
    /\ build_call = NoCall
    /\ changed_in_run = FALSE
    /\ runs = 0

\* A rerun of the script up to line 69: the selectbox gives the region the
\* user has chosen ("" for none), and a new non-empty choice is stored and
\* flagged.
Rerun ==
    /\ RunEnded
    /\ runs < MaxRuns
    /\ \E sel \in {EmptyStr} \cup NWS_REGIONS :
           /\ selected_region' = sel
           /\ IF Truthy(sel) /\ sel # user_region
              THEN /\ user_region' = sel
                   /\ user_region_changed' = TRUE
                   /\ changed_in_run' = TRUE
              ELSE /\ UNCHANGED <<user_region, user_region_changed>>
                   /\ changed_in_run' = FALSE
    /\ runs' = runs + 1
    /\ run_pc' = "gate"
    /\ page_out' = "none"
    /\ build_call' = NoCall
    /\ UNCHANGED chat_engine
    /\ UNCHANGED <<filterVars, citeVars, acqVars, chatVars>>

\* Mutant: the run goes on without a region.
Gate_NoStop ==
    /\ run_pc = "gate"
    /\ run_pc' = "engine"
    /\ UNCHANGED <<user_region, user_region_changed, chat_engine, selected_region,
                   page_out, build_call, changed_in_run, runs>>
    /\ UNCHANGED <<filterVars, citeVars, acqVars, chatVars>>

\* Lines 71-77: without a stored region the run warns and stops.
Gate ==
    /\ run_pc = "gate"
    /\ IF ~Truthy(user_region)
       THEN run_pc' = "stopped" /\ page_out' = "select_region_warning"
       ELSE run_pc' = "engine" /\ UNCHANGED page_out
    /\ UNCHANGED <<user_region, user_region_changed, chat_engine, selected_region,
                   build_call, changed_in_run, runs>>
    /\ UNCHANGED <<filterVars, citeVars, acqVars, chatVars>>

\* Lines 139-142: the engine is built when the flag is set; the call passes
\* the region alone.
EngineStep ==
    /\ run_pc = "engine"
    /\ IF ~ChatEngineKeySet \/ user_region_changed
       THEN LET args == <<user_region>>
                result == CallBuildChatEngine(all_docs, args)
            IN  /\ build_call' = args
                /\ IF result = TYPE_ERROR
                   THEN /\ run_pc' = "raised"
                        /\ page_out' = "TypeError"
                        /\ UNCHANGED <<chat_engine, user_region_changed>>
                   ELSE IF result = ST_STOP
                   THEN /\ run_pc' = "stopped"
                        /\ page_out' = "office_required_error"
                        /\ UNCHANGED <<chat_engine, user_region_changed>>
                   ELSE /\ chat_engine' = result
                        /\ user_region_changed' = FALSE
                        /\ run_pc' = "chat"
                        /\ UNCHANGED page_out
       ELSE /\ run_pc' = "chat"
            /\ UNCHANGED <<chat_engine, user_region_changed, page_out, build_call>>
    /\ UNCHANGED <<user_region, selected_region, changed_in_run, runs>>
    /\ UNCHANGED <<filterVars, citeVars, acqVars, chatVars>>

NextPage == Rerun \/ Gate \/ EngineStep

SpecPage == InitPage /\ [][NextPage]_vars

\* ------------------------------------------------------------ chat turn
\* Lines 144-196, in a session that holds an engine: the state the run is
\* in after line 142 once the call of line 141 passes region and office.
Prompts == {<<"q1">>, <<"q2">>}

\* What the engine streams back: an answer, or nothing but whitespace.
ResponseTexts == {<<Ws(1), Ch(40, "answer"), Ws(1)>>, <<Ws(2)>>}

\* The passages of a response.
ResponseNodes ==
    { <<>>,
      <<Node(TextA, [file_name |-> FileA]), Node(TextB, [file_name |-> FileA])>> }

FALLBACK == <<Ch(80, "Sorry, I couldn't find relevant information.")>>
GREETING == <<"Ask me a question about the NWS Directives!">>

\* Lines 161-193: the text of the assistant turn.
ResponseText(streamed, nodes) ==
    LET stripped == Strip(streamed)
        response_text == IF stripped = <<>> THEN FALLBACK ELSE stripped
    IN  IF BuildSources(nodes) # <<>>
        THEN <<response_text, "\n\n**Sources:**\n", BuildSources(nodes)>>
        ELSE <<response_text>>

LastRole == messages[Len(messages)].role

InitChat ==
    /\ IdleFilter /\ IdleCite /\ IdleAcq
    /\ \E r \in NWS_REGIONS, office \in NWS_OFFICES :
           /\ user_region = r
           /\ selected_region = r
           /\ chat_engine = build_chat_engine(<<>>, r, office)
    /\ user_region_changed = FALSE
    /\ run_pc = "chat"
    /\ page_out = "none"
    /\ build_call = NoCall
    /\ changed_in_run = FALSE
    /\ runs = 0
    /\ messages = <<[role |-> "assistant", content |-> GREETING]>>
    /\ prompt = PyNone
    /\ chat_pc = "input"

\* Lines 148-155 of a run: chat_input gives the submitted question or None,
\* and a question is appended as a user turn.
ChatInput ==
    /\ chat_pc = "input"
    /\ \E p \in {PyNone} \cup Prompts :
           /\ p # PyNone => Len(messages) + 2 <= MaxMessages
           /\ prompt' = p
           /\ messages' = IF p # PyNone
                          THEN Append(messages, [role |-> "user", content |-> p])
                          ELSE messages
    /\ chat_pc' = "respond"
    /\ page_out' = "none"
    /\ UNCHANGED <<user_region, user_region_changed, chat_engine, selected_region,
                   run_pc, build_call, changed_in_run, runs>>
    /\ UNCHANGED <<filterVars, citeVars, acqVars>>

\* Line 158 when the last turn is the assistant's: nothing to answer.
NoResponse ==
    /\ chat_pc = "respond"
    /\ LastRole = "assistant"
    /\ chat_pc' = "input"
    /\ UNCHANGED <<messages, prompt>>
    /\ UNCHANGED <<filterVars, citeVars, acqVars, pageVars>>

\* Lines 158-196 when stream_chat answers: the assistant turn is appended.
RespondOk ==
    /\ chat_pc = "respond"
    /\ LastRole # "assistant"
    /\ \E streamed \in ResponseTexts, nodes \in ResponseNodes :
           messages' = Append(messages, [role |-> "assistant",
                                         content |-> ResponseText(streamed, nodes)])
    /\ chat_pc' = "input"
    /\ UNCHANGED prompt
    /\ UNCHANGED <<filterVars, citeVars, acqVars, pageVars>>

\* Lines 158-161 when stream_chat or its stream raises: nothing catches the
\* exception, the run ends there and the page shows the exception.
RespondRaise ==
    /\ chat_pc = "respond"
    /\ LastRole # "assistant"
    /\ chat_pc' = "input"
    /\ page_out' = "exception"
    /\ UNCHANGED <<messages, prompt>>
    /\ UNCHANGED <<user_region, user_region_changed, chat_engine, selected_region,
                   run_pc, build_call, changed_in_run, runs>>
    /\ UNCHANGED <<filterVars, citeVars, acqVars>>

NextChat == ChatInput \/ NoResponse \/ RespondOk \/ RespondRaise

SpecChat == InitChat /\ [][NextChat]_vars

\* ------------------------------------------------- scope filter: claims
IsExactlyNational(doc) == DictGet(doc.metadata, "region", EmptyStr) = NATIONAL

NationalCount == Cardinality({i \in 1..Len(all_docs) : IsNationalDoc(all_docs[i])})
RegionalCount == Cardinality({i \in 1..Len(all_docs) : IsRegionalDoc(all_docs[i], region)})

\* C1: once the filter has run, every document of all_docs whose region
\* metadata is "National" is in the result, whatever the requested region
\* and whether or not a regional document matched.
C1_NationalAlwaysIncluded ==
    filter_pc # "start" =>
        \A i \in 1..Len(all_docs) :
            IsExactlyNational(all_docs[i]) =>
                \E j \in 1..Len(filtered) : filtered[j] = all_docs[i]

\* C1 witness: the filter ran over a list holding a national document and a
\* document of the requested region.
C1_Witness ==
    /\ filter_pc = "filtered"
    /\ \E i \in 1..Len(all_docs) : IsExactlyNational(all_docs[i])
    /\ \E i \in 1..Len(all_docs) :
           DictGet(all_docs[i].metadata, "region", EmptyStr) = region

\* C2 (as claimed): filtering the filter's output again, same region, gives
\* the same sequence as one application.
C2_Idempotent ==
    filter_pc = "refiltered" => refiltered = filtered

\* C9: the result is the national documents in input order followed by the
\* region-matching documents in input order and nothing else; over
\* [National, Southern Region, Western Region] with Southern Region requested
\* it is the first two documents.
C9_NationalThenRegionalInOrder ==
    filter_pc # "start" =>
        /\ Len(filtered) = NationalCount + RegionalCount
        /\ \A k \in 1..Len(filtered) :
               /\ \E i \in 1..Len(all_docs) : all_docs[i] = filtered[k]
               /\ (k <= NationalCount) => IsNationalDoc(filtered[k])
               /\ (k > NationalCount) => IsRegionalDoc(filtered[k], region)
        /\ \A k, l \in 1..Len(filtered) :
               (k < l /\ (l <= NationalCount \/ k > NationalCount))
                   => (filtered[k].id < filtered[l].id)
        /\ ( ( /\ Len(all_docs) = 3
               /\ all_docs[1].metadata = [region |-> NATIONAL]
               /\ all_docs[2].metadata = [region |-> SOUTHERN]
               /\ all_docs[3].metadata = [region |-> WESTERN]
               /\ region = SOUTHERN )
             => (filtered = <<all_docs[1], all_docs[2]>>) )

\* C9 witness: the filter ran over [National, Southern Region, Western
\* Region] with Southern Region requested and kept the first two.
C9_Witness ==
    /\ filter_pc = "filtered"
    /\ Len(all_docs) = 3
    /\ all_docs[1].metadata = [region |-> NATIONAL]
    /\ all_docs[2].metadata = [region |-> SOUTHERN]
    /\ all_docs[3].metadata = [region |-> WESTERN]
    /\ region = SOUTHERN
    /\ filtered = <<all_docs[1], all_docs[2]>>

\* ------------------------------------------------ citation loop: claims
\* The passages the loop looks at, by position.
Inspected ==
    1..(IF Len(source_nodes) < max_sources THEN Len(source_nodes) ELSE max_sources)

PassesTextTests(node) == SourceExcerpt(node) # <<>>

UrlCount(url) ==
    Cardinality({k \in 1..Len(sources) : CitationUrl(sources[k]) = url})

\* The builder as C3 reads it: every passage is walked, in order, until
\* `limit` citations have been accepted.
RECURSIVE WalkUntilAccepted(_, _, _, _)
WalkUntilAccepted(nodes, i, limit, acc) ==
    IF i > Len(nodes) \/ Len(acc.sources) >= limit THEN acc
    ELSE WalkUntilAccepted(nodes, i + 1, limit, CiteStep(nodes[i], acc))

\* C3 (as claimed): the limit counts accepted citations: the citation list
\* is what walking all retrieved passages gives, stopping only once
\* max_sources citations have been accepted.
C3_LimitCountsAccepted ==
    cite_pc = "cited" =>
        sources = WalkUntilAccepted(source_nodes, 1, max_sources,
                                    [sources |-> <<>>, seen_sources |-> {}]).sources

\* C10: the citation list holds at most one citation per source URL, and one
\* for the URL of every inspected passage that passes the text tests.
C10_OneCitationPerUrl ==
    cite_pc = "cited" =>
        /\ \A k, l \in 1..Len(sources) :
               k # l => CitationUrl(sources[k]) # CitationUrl(sources[l])
        /\ \A i \in Inspected :
               PassesTextTests(source_nodes[i]) => UrlCount(SourceUrl(source_nodes[i])) = 1

\* C10 witness: two inspected passages of one derived URL, both passing the
\* text tests, with different excerpts; the earlier one is cited.
C10_Witness ==
    /\ cite_pc = "cited"
    /\ \E i, j \in Inspected :
           /\ i < j
           /\ PassesTextTests(source_nodes[i]) /\ PassesTextTests(source_nodes[j])
           /\ SourceUrl(source_nodes[i]) = SourceUrl(source_nodes[j])
           /\ SourceUrl(source_nodes[i]) # UNKNOWN_SOURCE
           /\ SourceExcerpt(source_nodes[i]) # SourceExcerpt(source_nodes[j])
           /\ \E k \in 1..Len(sources) :
                  sources[k] = Citation(SourceExcerpt(source_nodes[i]),
                                        SourceUrl(source_nodes[i]))

\* The inspected passages that pass the text tests and get the placeholder.
UnknownAccepted ==
    {i \in Inspected : PassesTextTests(source_nodes[i])
                          /\ SourceUrl(source_nodes[i]) = UNKNOWN_SOURCE}

\* C7 (as claimed): every inspected passage with no derivable URL that passes
\* the text tests has a citation of its own with the placeholder URL, also
\* when an earlier one has been cited.
C7_UnknownNeverDropped ==
    cite_pc = "cited" => UrlCount(UNKNOWN_SOURCE) = Cardinality(UnknownAccepted)

\* C7 (amended): of the inspected passages that pass the text tests and get
\* the placeholder URL, the first is cited with the placeholder and its own
\* excerpt; the later ones are skipped by the URL dedup.
C7_FirstUnknownCited ==
    cite_pc = "cited" =>
        IF UnknownAccepted = {} THEN UrlCount(UNKNOWN_SOURCE) = 0
        ELSE LET first == CHOOSE i \in UnknownAccepted :
                              \A j \in UnknownAccepted : i <= j
             IN  /\ UrlCount(UNKNOWN_SOURCE) = 1
                 /\ \E k \in 1..Len(sources) :
                        sources[k] = Citation(SourceExcerpt(source_nodes[first]),
                                              UNKNOWN_SOURCE)

\* C7 witness: two inspected unknown-source passages with different excerpts
\* after a cited passage with a derived URL; the first of the two is cited.
C7_Witness ==
    /\ cite_pc = "cited"
    /\ Len(sources) = 2
    /\ CitationUrl(sources[1]) # UNKNOWN_SOURCE
    /\ \E i, j \in UnknownAccepted :
           /\ i < j
           /\ SourceExcerpt(source_nodes[i]) # SourceExcerpt(source_nodes[j])
           /\ sources[2] = Citation(SourceExcerpt(source_nodes[i]), UNKNOWN_SOURCE)

\* -------------------------------------------------- acquisition: claims
\* C4 (as claimed): when the call over a fetched listing has ended, every
\* link that is a downloadable PDF has been checked and stored, whatever
\* happened to the links before it.
C4_FailureAffectsOneFile ==
    (acq_pc \in {"done", "failed"} /\ listing = "ok") =>
        \A i \in 1..Len(pdf_links) :
            pdf_links[i].outcome = "pdf" =>
                i \in checked /\ pdf_links[i].name \in stored

\* ----------------------------------------------------- page run: claims
\* C8: while the session stores no region, no run gets past the gate: the
\* engine is not built, the chat section is not entered, and a run that has
\* ended has stopped on the warning that asks for a region.
C8_NoRetrievalWithoutRegion ==
    ~Truthy(user_region) =>
        /\ run_pc \in {"idle", "gate", "stopped"}
        /\ build_call = NoCall
        /\ chat_engine = PyNone
        /\ run_pc = "stopped" => page_out = "select_region_warning"

\* C8 witness: a second run with no region chosen has stopped on the warning.
C8_Witness ==
    /\ runs = 2
    /\ user_region = PyNone
    /\ selected_region = EmptyStr
    /\ run_pc = "stopped"
    /\ page_out = "select_region_warning"

\* C6 (as claimed): when a run has ended, the engine was built in it exactly
\* if the selection changed in it, and after a build the session holds the
\* engine of the stored region and the change flag is cleared.
C6_RebuildIffSelectionChanged ==
    RunEnded =>
        /\ (build_call # NoCall) <=> changed_in_run
        /\ build_call # NoCall =>
               /\ chat_engine # PyNone
               /\ chat_engine[2] = user_region
               /\ ~user_region_changed

====
